---- MODULE Spec2Model ----
(***************************************************************************)
(* Model of the Hubble Legacy Archive acquisition loop of                  *)
(* Celestial_Object_Classifier.                                            *)
(*                                                                         *)
(* The repository holds two versions of the manual-processing loop:        *)
(*   "aih"  src/astro_img_handling.py  gen_img_set / __fetch_img           *)
(*   "gi"   src/generate_images.py     AstroImgManager.gen_img_set /       *)
(*                                     AstroImgManager.__fetch_img         *)
(* The variable impl selects the version; both run with                    *)
(* process_manually = True.  A location is the pair <<ra, dec>>; an        *)
(* archive row is its (RA, DEC) key, and its URL is its row number.        *)
(* Exposure scratch files exposure_<n>.jpeg are the numbers n in files;    *)
(* output files RA_<ra>__DEC_<dec>.jpeg are the archive keys in outputs.   *)
(***************************************************************************)
EXTENDS Integers, Sequences, FiniteSets, TLC

VARIABLES
    impl,               \* which source file's loop runs
    pc,                 \* position of the controller
    img_idx,            \* for-loop counter of gen_img_set
    ra, dec,            \* current location of gen_img_set
    prev_locs,          \* list of committed locations
    img_table,          \* __fetch_img: rows returned by the query
    img_table_assigned, \* __fetch_img: whether img_table is bound
    grouped_img_urls,   \* __fetch_img: insertion-ordered dict, as a sequence
    loc_index,          \* __fetch_img: 0-based index of the selected group
    exposure_urls,      \* __fetch_img: URLs of the selected group
    exposure_count,     \* __fetch_img: number of exposures downloaded
    exposure_path_list, \* __fetch_img: scratch files handed to the stacker
    files,              \* scratch files present in the image directory
    outputs,            \* output files present in the image directory
    edge,               \* how the loop head was reached last
    lastExc,            \* exception that ended the last __fetch_img call
    tried,              \* locations __fetch_img has been called with
    committed_out,      \* output file written for each entry of prev_locs
    failed_loc,         \* location of the semantic failure not yet followed by a query
    normalized,         \* __fetch_img: scratch files a straightener has rewritten
    zoomed,             \* __fetch_img: verdict of __is_zoomed_in for the current exposure
    straightened_by,    \* __fetch_img: straightener run on the current exposure
    image,              \* grey pixel matrix given to the image routines
    corners,            \* __find_corners: the four corners, <<>> while unbound
    zoomed_in,          \* __is_zoomed_in: result
    img_hist,           \* __enhance_contrast: histogram
    uniform_norm,       \* __enhance_contrast: lookup table
    img_eq,             \* __enhance_contrast: result
    draw,               \* gen_rand_loc: the two uniform draws
    greater_or_less_than, \* __find_corners: "lt" or "gt"
    pixel_value,        \* __find_corners: value pixels are compared with
    label_files,        \* format_dataset: IDs of the .txt files of each labels subdirectory
    data_files,         \* format_dataset: IDs of the .jpeg files of each images subdirectory
    data_Id,            \* format_dataset: next unique ID
    subdir_idx,         \* format_dataset: position in subdirs
    label_Ids,          \* format_dataset: sorted label IDs of the current subdirectory
    label_pos,          \* format_dataset: position in label_Ids
    labels_at_start,    \* format_dataset: number of label files before the run
    slope,              \* __straighten_img: <<row difference, column difference>> of the angle
    rotated,            \* __straighten_img: the rotated buffer
    edges,              \* __straighten_img: top, bottom, left, right edge, <<>> while unbound
    zoom_corners,       \* __straighten_zoomed_img: left_upper, right_upper, left_lower, right_lower
    zoom_crop,          \* __straighten_zoomed_img: top, bottom, left, right value and the cropped pixels
    reads,              \* __straighten_zoomed_img: <<row, col>> indices the scans have read
    all_sky_img_table,  \* __all_sky_search: rows returned by the all-sky query
    num_imgs,           \* __all_sky_search: number of location groups
    saved,              \* __all_sky_search: <<file index, URL>> of each file written, in order
    attempts,           \* __all_sky_search: downloads that have failed so far
    driver,             \* who calls ServerPortal: the loop of raspi_server.py or single calls
    send_f,             \* make_request: bytes of the file the client sends
    resp_f,             \* ServerPortal.send: bytes of the file the server answers with
    cpc,                \* position of the client in make_request
    spc,                \* position of the server
    c2s,                \* bytes in flight from the client to the server
    c2s_fin,            \* the client has shut down its write side
    s2c,                \* bytes in flight from the server to the client
    s2c_fin,            \* the server has closed the connection
    req_pos,            \* bytes of send_f handed to the client's socket
    resp_pos,           \* bytes of resp_f handed to the server's connection
    save_f,             \* ServerPortal.recv: bytes written to save_f
    recv_f,             \* make_request: bytes written to recv_f
    conn,               \* ServerPortal.conn: "None", "open" or "closed"
    pending,            \* the client's connection waits in the listen queue
    send_result,        \* outcome of the last ServerPortal.send call
    conn_at_send,       \* ServerPortal.conn when send was last called
    calls               \* number of ServerPortal calls made

vars == <<impl, pc, img_idx, ra, dec, prev_locs, img_table, img_table_assigned,
          grouped_img_urls, loc_index, exposure_urls, exposure_count,
          exposure_path_list, files, outputs, edge, lastExc, tried,
          committed_out, failed_loc, normalized, zoomed, straightened_by,
          image, corners, zoomed_in, img_hist, uniform_norm, img_eq, draw,
          greater_or_less_than, pixel_value, label_files, data_files,
          data_Id, subdir_idx, label_Ids, label_pos, labels_at_start, slope,
          rotated, edges, zoom_corners, zoom_crop, reads, all_sky_img_table,
          num_imgs, saved, attempts, driver, send_f, resp_f, cpc, spc, c2s,
          c2s_fin, s2c, s2c_fin, req_pos, resp_pos, save_f, recv_f, conn,
          pending, send_result, conn_at_send, calls>>

\* state of format_dataset
fmt == <<label_files, data_files, data_Id, subdir_idx, label_Ids, label_pos,
         labels_at_start>>

\* state of the image routines and the sampler
routines == <<image, corners, zoomed_in, img_hist, uniform_norm, img_eq, draw,
              greater_or_less_than, pixel_value>>

\* the image routines and the sampler are not running
RoutinesIdle ==
    /\ image = <<>>
    /\ corners = <<>>
    /\ zoomed_in = FALSE
    /\ img_hist = <<>>
    /\ uniform_norm = <<>>
    /\ img_eq = <<>>
    /\ draw = <<>>
    /\ greater_or_less_than = "None"
    /\ pixel_value = 0

\* state of __straighten_img and __straighten_zoomed_img
str == <<slope, rotated, edges, zoom_corners, zoom_crop, reads>>

\* state of __all_sky_search
sky == <<all_sky_img_table, num_imgs, saved, attempts>>

\* state of the portals of send_data.py
net == <<driver, send_f, resp_f, cpc, spc, c2s, c2s_fin, s2c, s2c_fin, req_pos,
         resp_pos, save_f, recv_f, conn, pending, send_result, conn_at_send,
         calls>>

\* state of the all-sky download and of the portals
io == <<sky, net>>

\* state of the programs other than gen_img_set and the image routines
ext == <<fmt, str, io>>

\* state of the routines that are modelled on their own
pure == <<image, corners, zoomed_in, img_hist, uniform_norm, img_eq, draw,
          greater_or_less_than, pixel_value, ext>>

locals == <<img_table, img_table_assigned, grouped_img_urls, loc_index,
            exposure_urls, exposure_count, exposure_path_list, normalized,
            zoomed, straightened_by>>

(***************************************************************************)
(* Bounds                                                                  *)
(***************************************************************************)
\* right ascensions the sampler can draw are 0..MaxRa
MaxRa == 1
\* number of images requested from gen_img_set
NumImg == 2
\* longest table the archive returns to the controller
MaxRows == 7
\* longest table given to grouping and selection on their own
MaxSelRows == 6
\* archive keys given to grouping and selection on their own
NumSelKeys == 3

(***************************************************************************)
(* Program constants                                                       *)
(***************************************************************************)
MIN_NUM_EXPOSURES == 5

Impls == {"aih", "gi"}

\* values gen_rand_loc / generate_rand_loc can return
Locs == {<<r, 0>> : r \in 0..MaxRa}

\* (RA, DEC) keys of the rows the archive returns to the controller
ArchKeys == {1, 2}

RECURSIVE SeqsUpTo(_, _)
SeqsUpTo(S, n) ==
    IF n = 0 THEN {<<>>}
    ELSE LET shorter == SeqsUpTo(S, n - 1)
         IN  shorter \cup {Append(s, x) : s \in {t \in shorter : Len(t) = n - 1}, x \in S}

\* n rows of key k
Rep(k, n) == [i \in 1..n |-> k]

\* tables of at most room rows that hold the rows of each key together
RECURSIVE RunTables(_, _)
RunTables(keys, room) ==
    {<<>>} \cup UNION {UNION {{Rep(k, n) \o t : t \in RunTables(keys \ {k}, room - n)}
                                : n \in 1..room} : k \in keys}

\* tables __query_hubble_legacy_archive returns to the controller; the
\* controller reads a table only through its groups, and tables whose keys
\* interleave are given to grouping and selection on their own (SelTables)
Tables == RunTables(ArchKeys, MaxRows)

Range(s) == {s[i] : i \in 1..Len(s)}

(***************************************************************************)
(* Grouping and selection (pure code of __fetch_img)                       *)
(***************************************************************************)
\* one iteration of "for entry in img_table": the row with key k and URL u
GroupEntryMut(g, k, u) == Append(g, [loc |-> k, urls |-> <<u>>])
GroupEntry(g, k, u) ==
    IF \E i \in 1..Len(g) : g[i].loc = k
    THEN [i \in 1..Len(g) |->
             IF g[i].loc = k THEN [loc |-> k, urls |-> Append(g[i].urls, u)]
             ELSE g[i]]
    ELSE Append(g, [loc |-> k, urls |-> <<u>>])

RECURSIVE GroupFrom(_, _, _)
GroupFrom(table, i, g) ==
    IF i > Len(table) THEN g
    ELSE GroupFrom(table, i + 1, GroupEntry(g, table[i], i))

GroupRows(table) == GroupFrom(table, 1, <<>>)

\* np.argmax keeps the current best unless a later value is greater
ArgMaxKeepMut(cand, best) == cand >= best
ArgMaxKeep(cand, best) == cand > best

RECURSIVE ArgMaxFrom(_, _, _)
ArgMaxFrom(lens, i, best) ==
    IF i > Len(lens) THEN best
    ELSE ArgMaxFrom(lens, i + 1,
                    IF ArgMaxKeep(lens[i], lens[best]) THEN i ELSE best)

\* 0-based result of np.argmax on a non-empty list
ArgMax(lens) == ArgMaxFrom(lens, 2, 1) - 1

GroupLens(g) == [i \in 1..Len(g) |-> Len(g[i].urls)]

NotEnoughMut(urls) == Len(urls) <= MIN_NUM_EXPOSURES
NotEnough(urls) == Len(urls) < MIN_NUM_EXPOSURES

(***************************************************************************)
(* Exception routing of gen_img_set                                        *)
(***************************************************************************)
AihSemantic == {"cv.error", "EmptySearch", "NotEnoughExposures"}
AihTransient == {"ConnectionError", "URLError", "timeout",
                 "requests.ConnectionError"}
GiTransient == {"ConnectionError", "URLError"}
GiSemantic == {"cv.error", "EmptySearch", "NotEnoughExposures", "ValueError"}

RouteMut(im, exc) ==
    IF im = "aih"
    THEN IF exc \in AihSemantic \ {"EmptySearch"} THEN "resample"
         ELSE IF exc \in AihTransient \cup {"EmptySearch"} THEN "retry"
         ELSE "propagate"
    ELSE IF exc \in GiTransient \cup {"EmptySearch"} THEN "retry"
         ELSE IF exc \in GiSemantic THEN "resample"
         ELSE "propagate"
Route(im, exc) ==
    IF im = "aih"
    THEN IF exc \in AihSemantic THEN "resample"
         ELSE IF exc \in AihTransient THEN "retry"
         ELSE "propagate"
    ELSE IF exc \in GiTransient THEN "retry"
         ELSE IF exc \in GiSemantic THEN "resample"
         ELSE "propagate"

\* whether the handler of a transient failure calls remove_exposures
RemovesOnRetry(im) == im = "gi"

\* exceptions the steps of __fetch_img can raise
QueryExc == {"ConnectionError", "URLError", "timeout"}
DownloadExc == {"ConnectionError", "requests.ConnectionError"}
NormalizeExc == {"cv.error", "ZeroDivisionError", "UnboundLocalError",
                 "IndexError"}
StackExc == {"cv.error"}
EnhanceExc == {"cv.error"}
PersistExc == {"cv.error"}

InPrevLocsMut(l, pl) == FALSE
InPrevLocs(l, pl) == l \in Range(pl)

ResetLocals ==
    /\ img_table' = <<>>
    /\ img_table_assigned' = FALSE
    /\ grouped_img_urls' = <<>>
    /\ loc_index' = 0
    /\ exposure_urls' = <<>>
    /\ exposure_count' = 0
    /\ exposure_path_list' = <<>>
    /\ normalized' = {}
    /\ zoomed' = "None"
    /\ straightened_by' = "None"

\* failures the controller is to answer by abandoning the location
SemanticFailures == {"EmptySearch", "NotEnoughExposures"} \cup NormalizeExc

\* __fetch_img raises exc; the except clauses of gen_img_set take over
Raise(exc) ==
    /\ lastExc' = exc
    /\ failed_loc' = IF exc \in SemanticFailures THEN <<ra, dec>> ELSE failed_loc
    /\ ResetLocals
    /\ CASE Route(impl, exc) = "retry" ->
              /\ files' = IF RemovesOnRetry(impl) THEN {} ELSE files
              /\ UNCHANGED <<ra, dec>>
              /\ pc' = "while"
              /\ edge' = "retry"
         [] Route(impl, exc) = "resample" ->
              /\ files' = {}
              /\ \E l \in Locs : ra' = l[1] /\ dec' = l[2]
              /\ pc' = "while"
              /\ edge' = "resample"
         [] OTHER ->
              /\ UNCHANGED <<files, ra, dec>>
              /\ pc' = "crashed"
              /\ edge' = "crash"
    /\ UNCHANGED <<impl, img_idx, prev_locs, outputs, tried, committed_out>>
    /\ UNCHANGED pure

\* format_dataset is not running
FmtIdle ==
    /\ label_files = <<>>
    /\ data_files = <<>>
    /\ data_Id = 0
    /\ subdir_idx = 0
    /\ label_Ids = <<>>
    /\ label_pos = 0
    /\ labels_at_start = 0

\* the straighteners are not running
StrIdle ==
    /\ slope = <<>>
    /\ rotated = <<>>
    /\ edges = <<>>
    /\ zoom_corners = <<>>
    /\ zoom_crop = <<>>
    /\ reads = {}

\* __all_sky_search is not running
SkyIdle ==
    /\ all_sky_img_table = <<>>
    /\ num_imgs = 0
    /\ saved = <<>>
    /\ attempts = 0

\* no portal exists
NetIdle ==
    /\ driver = "None"
    /\ send_f = <<>>
    /\ resp_f = <<>>
    /\ cpc = "None"
    /\ spc = "None"
    /\ c2s = <<>>
    /\ c2s_fin = FALSE
    /\ s2c = <<>>
    /\ s2c_fin = FALSE
    /\ req_pos = 0
    /\ resp_pos = 0
    /\ save_f = <<>>
    /\ recv_f = <<>>
    /\ conn = "None"
    /\ pending = FALSE
    /\ send_result = "None"
    /\ conn_at_send = "None"
    /\ calls = 0

IoIdle ==
    /\ SkyIdle
    /\ NetIdle

\* the other programs are not running
ExtIdle ==
    /\ FmtIdle
    /\ StrIdle
    /\ IoIdle

\* the routines modelled on their own are not running
PureIdle ==
    /\ ExtIdle
    /\ image = <<>>
    /\ corners = <<>>
    /\ zoomed_in = FALSE
    /\ img_hist = <<>>
    /\ uniform_norm = <<>>
    /\ img_eq = <<>>
    /\ draw = <<>>
    /\ greater_or_less_than = "None"
    /\ pixel_value = 0

(***************************************************************************)
(* gen_img_set                                                             *)
(***************************************************************************)
Init ==
    /\ impl \in Impls
    /\ pc = "for"
    /\ img_idx = 0
    /\ ra = 0
    /\ dec = 0
    /\ prev_locs = <<>>
    /\ img_table = <<>>
    /\ img_table_assigned = FALSE
    /\ grouped_img_urls = <<>>
    /\ loc_index = 0
    /\ exposure_urls = <<>>
    /\ exposure_count = 0
    /\ exposure_path_list = <<>>
    /\ files = {}
    /\ outputs = {}
    /\ edge = "none"
    /\ lastExc = "none"
    /\ tried = {}
    /\ committed_out = <<>>
    /\ failed_loc = <<>>
    /\ normalized = {}
    /\ zoomed = "None"
    /\ straightened_by = "None"
    /\ PureIdle

\* "for img_idx in range(num_img)": draw the first location of the iteration
ForNext ==
    /\ pc = "for"
    /\ img_idx < NumImg
    /\ \E l \in Locs : ra' = l[1] /\ dec' = l[2]
    /\ pc' = "while"
    /\ edge' = "start"
    /\ lastExc' = "none"
    /\ UNCHANGED <<impl, img_idx, prev_locs, files, outputs, tried,
                   committed_out>>
    /\ UNCHANGED locals
    /\ UNCHANGED failed_loc
    /\ UNCHANGED pure

\* the for loop is exhausted: gen_img_set returns
ForDone ==
    /\ pc = "for"
    /\ img_idx >= NumImg
    /\ pc' = "done"
    /\ UNCHANGED <<impl, img_idx, ra, dec, prev_locs, files, outputs, edge,
                   lastExc, tried, committed_out>>
    /\ UNCHANGED locals
    /\ UNCHANGED failed_loc
    /\ UNCHANGED pure

\* "if (ra, dec) in prev_locs": draw again and continue
Reject ==
    /\ pc = "while"
    /\ InPrevLocs(<<ra, dec>>, prev_locs)
    /\ \E l \in Locs : ra' = l[1] /\ dec' = l[2]
    /\ edge' = "reject"
    /\ UNCHANGED <<impl, pc, img_idx, prev_locs, files, outputs, lastExc,
                   tried, committed_out>>
    /\ UNCHANGED locals
    /\ UNCHANGED failed_loc
    /\ UNCHANGED pure

\* the location passed the check: __fetch_img(ra, dec, ...) is called
FetchCall ==
    /\ pc = "while"
    /\ ~InPrevLocs(<<ra, dec>>, prev_locs)
    /\ pc' = "query"
    /\ tried' = tried \cup {<<ra, dec>>}
    /\ edge' = "none"
    /\ lastExc' = "none"
    /\ UNCHANGED <<impl, img_idx, ra, dec, prev_locs, files, outputs,
                   committed_out>>
    /\ UNCHANGED locals
    /\ failed_loc' = <<>>
    /\ UNCHANGED pure

(***************************************************************************)
(* __fetch_img                                                             *)
(***************************************************************************)
\* the query returns a table with at least one row
QueryRows ==
    /\ pc = "query"
    /\ \E t \in Tables \ {<<>>} : img_table' = t
    /\ img_table_assigned' = TRUE
    /\ pc' = "group"
    /\ UNCHANGED <<impl, img_idx, ra, dec, prev_locs, grouped_img_urls,
                   loc_index, exposure_urls, exposure_count,
                   exposure_path_list, files, outputs, edge, lastExc, tried,
                   committed_out>>
    /\ UNCHANGED <<failed_loc, normalized, zoomed, straightened_by>>
    /\ UNCHANGED pure

\* the query returns no row: "raise EmptySearch"
QueryEmpty ==
    /\ pc = "query"
    /\ Raise("EmptySearch")

\* the query fails on the network
QueryFails ==
    /\ pc = "query"
    /\ \E exc \in QueryExc : Raise(exc)

\* the query raises ValueError: it is printed and execution goes on
QueryValueError ==
    /\ pc = "query"
    /\ pc' = "group"
    /\ UNCHANGED <<impl, img_idx, ra, dec, prev_locs, files, outputs, edge,
                   lastExc, tried, committed_out>>
    /\ UNCHANGED locals
    /\ UNCHANGED failed_loc
    /\ UNCHANGED pure

\* grouping reads img_table while it is unbound
GroupUnbound ==
    /\ pc = "group"
    /\ ~img_table_assigned
    /\ Raise("UnboundLocalError")

\* grouping, selection and the exposure-count check
GroupSelect ==
    /\ pc = "group"
    /\ img_table_assigned
    /\ LET g == GroupRows(img_table)
           li == ArgMax(GroupLens(g))
           urls == g[li + 1].urls
       IN  IF NotEnough(urls)
           THEN Raise("NotEnoughExposures")
           ELSE /\ grouped_img_urls' = g
                /\ loc_index' = li
                /\ exposure_urls' = urls
                /\ exposure_count' = 0
                /\ exposure_path_list' = <<>>
                /\ pc' = "download"
                /\ UNCHANGED <<impl, img_idx, ra, dec, prev_locs, img_table,
                               img_table_assigned, files, outputs, edge,
                               lastExc, tried, committed_out, failed_loc,
                               normalized, zoomed, straightened_by>>
                /\ UNCHANGED pure

\* one iteration of the download loop: __save_img succeeds
DownloadOk ==
    /\ pc = "download"
    /\ exposure_count < Len(exposure_urls)
    /\ exposure_count' = exposure_count + 1
    /\ exposure_path_list' = Append(exposure_path_list, exposure_count + 1)
    /\ files' = files \cup {exposure_count + 1}
    /\ pc' = IF impl = "gi" THEN "normalize" ELSE "download"
    /\ zoomed' = "None"
    /\ straightened_by' = "None"
    /\ UNCHANGED <<impl, img_idx, ra, dec, prev_locs, img_table,
                   img_table_assigned, grouped_img_urls, loc_index,
                   exposure_urls, outputs, edge, lastExc, tried,
                   committed_out, failed_loc, normalized>>
    /\ UNCHANGED pure

\* __save_img raises before the scratch file is opened
DownloadFails ==
    /\ pc = "download"
    /\ exposure_count < Len(exposure_urls)
    /\ \E exc \in DownloadExc : Raise(exc)

\* the straightener __fetch_img calls on the verdict of __is_zoomed_in
Straightener(z) ==
    IF z = "True" THEN "__straighten_zoomed_img" ELSE "__straighten_img"

\* generate_images.py only: __is_zoomed_in and a straightener succeed
NormalizeOk ==
    /\ pc = "normalize"
    /\ \E z \in {"True", "False"} :
           /\ zoomed' = z
           /\ straightened_by' = Straightener(z)
    /\ normalized' = normalized \cup {exposure_count}
    /\ pc' = "download"
    /\ UNCHANGED <<impl, img_idx, ra, dec, prev_locs, files, outputs, edge,
                   lastExc, tried, committed_out, failed_loc, img_table,
                   img_table_assigned, grouped_img_urls, loc_index,
                   exposure_urls, exposure_count, exposure_path_list>>
    /\ UNCHANGED pure

\* generate_images.py only: __is_zoomed_in or a straightener raises
NormalizeFails ==
    /\ pc = "normalize"
    /\ \E exc \in NormalizeExc : Raise(exc)

\* stackImagesECC succeeds and the exposures of the path list are removed
StackOk ==
    /\ pc = "download"
    /\ exposure_count = Len(exposure_urls)
    /\ files' = files \ Range(exposure_path_list)
    /\ pc' = "enhance"
    /\ UNCHANGED <<impl, img_idx, ra, dec, prev_locs, outputs, edge, lastExc,
                   tried, committed_out>>
    /\ UNCHANGED locals
    /\ UNCHANGED failed_loc
    /\ UNCHANGED pure

StackFails ==
    /\ pc = "download"
    /\ exposure_count = Len(exposure_urls)
    /\ \E exc \in StackExc : Raise(exc)

\* cv.bilateralFilter and __enhance_contrast succeed
EnhanceOk ==
    /\ pc = "enhance"
    /\ pc' = "persist"
    /\ UNCHANGED <<impl, img_idx, ra, dec, prev_locs, files, outputs, edge,
                   lastExc, tried, committed_out>>
    /\ UNCHANGED locals
    /\ UNCHANGED failed_loc
    /\ UNCHANGED pure

EnhanceFails ==
    /\ pc = "enhance"
    /\ \E exc \in EnhanceExc : Raise(exc)

\* cv.imwrite succeeds, __fetch_img returns, the location is committed
PersistOk ==
    /\ pc = "persist"
    /\ outputs' = outputs \cup {grouped_img_urls[loc_index + 1].loc}
    /\ prev_locs' = Append(prev_locs, <<ra, dec>>)
    /\ committed_out' = Append(committed_out,
                               grouped_img_urls[loc_index + 1].loc)
    /\ img_idx' = img_idx + 1
    /\ pc' = "for"
    /\ edge' = "commit"
    /\ ResetLocals
    /\ UNCHANGED <<impl, ra, dec, files, lastExc, tried>>
    /\ UNCHANGED failed_loc
    /\ UNCHANGED pure

PersistFails ==
    /\ pc = "persist"
    /\ \E exc \in PersistExc : Raise(exc)

Next ==
    \/ ForNext
    \/ ForDone
    \/ Reject
    \/ FetchCall
    \/ QueryRows
    \/ QueryEmpty
    \/ QueryFails
    \/ QueryValueError
    \/ GroupUnbound
    \/ GroupSelect
    \/ DownloadOk
    \/ DownloadFails
    \/ NormalizeOk
    \/ NormalizeFails
    \/ StackOk
    \/ StackFails
    \/ EnhanceOk
    \/ EnhanceFails
    \/ PersistOk
    \/ PersistFails

Spec == Init /\ [][Next]_vars

\* a draw of the rejection loop that leaves the visited set
FreshDraw ==
    /\ Reject
    /\ ~InPrevLocs(<<ra', dec'>>, prev_locs)

\* steps of the grouping stage, and all the others
GroupSteps == GroupUnbound \/ GroupSelect
OtherSteps == pc # "group" /\ Next

\* gen_img_set runs as one sequential thread, so a step is taken whenever
\* one can be: weak fairness of Next, with the enabling condition of the
\* grouping stage (some step is possible in every state at "group") written
\* out.  generate_rand_loc draws independently each time, so a loop that
\* keeps drawing does not miss the unvisited locations forever.
Fairness ==
    /\ WF_vars(OtherSteps)
    /\ ([]<>(pc # "group") \/ []<><<GroupSteps>>_vars)
    /\ WF_vars(FreshDraw)

LiveSpec == Init /\ [][Next]_vars /\ Fairness

(***************************************************************************)
(* Grouping and selection on their own: the table is drawn in the initial  *)
(* state and the two steps of __fetch_img are applied to it.               *)
(***************************************************************************)
\* three rows of key 1, then five of key 2, then five of key 3
Table355 == <<1, 1, 1>> \o <<2, 2, 2, 2, 2>> \o <<3, 3, 3, 3, 3>>

SelTables == (SeqsUpTo(1..NumSelKeys, MaxSelRows) \ {<<>>}) \cup {Table355}

SelInit ==
    /\ impl = "aih"
    /\ pc = "sel_start"
    /\ img_idx = 0
    /\ ra = 0
    /\ dec = 0
    /\ prev_locs = <<>>
    /\ img_table \in SelTables
    /\ img_table_assigned = TRUE
    /\ grouped_img_urls = <<>>
    /\ loc_index = 0
    /\ exposure_urls = <<>>
    /\ exposure_count = 0
    /\ exposure_path_list = <<>>
    /\ files = {}
    /\ outputs = {}
    /\ edge = "none"
    /\ lastExc = "none"
    /\ tried = {}
    /\ committed_out = <<>>
    /\ failed_loc = <<>>
    /\ normalized = {}
    /\ zoomed = "None"
    /\ straightened_by = "None"
    /\ PureIdle

\* "for entry in img_table": build grouped_img_urls
SelGroup ==
    /\ pc = "sel_start"
    /\ grouped_img_urls' = GroupRows(img_table)
    /\ pc' = "sel_grouped"
    /\ UNCHANGED <<impl, img_idx, ra, dec, prev_locs, img_table,
                   img_table_assigned, loc_index, exposure_urls,
                   exposure_count, exposure_path_list, files, outputs, edge,
                   lastExc, tried, committed_out>>
    /\ UNCHANGED <<failed_loc, normalized, zoomed, straightened_by>>
    /\ UNCHANGED pure

\* np.argmax over the group sizes and the pick of exposure_urls
SelPick ==
    /\ pc = "sel_grouped"
    /\ loc_index' = ArgMax(GroupLens(grouped_img_urls))
    /\ exposure_urls' =
           grouped_img_urls[ArgMax(GroupLens(grouped_img_urls)) + 1].urls
    /\ pc' = "sel_done"
    /\ UNCHANGED <<impl, img_idx, ra, dec, prev_locs, img_table,
                   img_table_assigned, grouped_img_urls, exposure_count,
                   exposure_path_list, files, outputs, edge, lastExc, tried,
                   committed_out>>
    /\ UNCHANGED <<failed_loc, normalized, zoomed, straightened_by>>
    /\ UNCHANGED pure

SelNext ==
    \/ SelGroup
    \/ SelPick

SelSpec == SelInit /\ [][SelNext]_vars

(***************************************************************************)
(* The sampler on its own.  A coordinate is an integer number of           *)
(* thousandths of a degree; a draw is an integer number of Sub-ths of a    *)
(* thousandth, so that round(x, 3) has digits to round away.               *)
(***************************************************************************)
\* state of gen_img_set that the routines run on their own leave alone
ctl == <<img_idx, prev_locs, files, outputs, edge, lastExc, tried,
         committed_out, failed_loc>>

\* gen_img_set and __fetch_img are not running
ControllerIdle ==
    /\ img_idx = 0
    /\ prev_locs = <<>>
    /\ img_table = <<>>
    /\ img_table_assigned = FALSE
    /\ grouped_img_urls = <<>>
    /\ loc_index = 0
    /\ exposure_urls = <<>>
    /\ exposure_count = 0
    /\ exposure_path_list = <<>>
    /\ files = {}
    /\ outputs = {}
    /\ edge = "none"
    /\ lastExc = "none"
    /\ tried = {}
    /\ committed_out = <<>>
    /\ failed_loc = <<>>
    /\ normalized = {}
    /\ zoomed = "None"
    /\ straightened_by = "None"

\* draw values per thousandth of a degree
Sub == 10

\* np.random.uniform(0, 360) returns a value of [0, 360)
RaLow == 0
RaHigh == 360 * 1000 * Sub
\* np.rad2deg(np.arcsin(np.random.uniform(-1, 1))) is a value of [-90, 90)
DecLow == (0 - 90) * 1000 * Sub
DecHigh == 90 * 1000 * Sub

\* draws are taken within NearEnd values of either end of the interval
NearEnd == 12

DrawsOf(low, high) ==
    (low..(low + NearEnd)) \cup ((high - 1 - NearEnd)..(high - 1))

\* round(x, 3): to the nearest thousandth, a tie to the even one
Round3(x) ==
    LET q == x \div Sub
        r == x % Sub
    IN  IF 2 * r > Sub \/ (2 * r = Sub /\ q % 2 = 1) THEN q + 1 ELSE q

SampleInit ==
    /\ impl \in Impls
    /\ pc = "sample_start"
    /\ ra = 0
    /\ dec = 0
    /\ ControllerIdle
    /\ ExtIdle
    /\ image = <<>>
    /\ corners = <<>>
    /\ zoomed_in = FALSE
    /\ img_hist = <<>>
    /\ uniform_norm = <<>>
    /\ img_eq = <<>>
    /\ greater_or_less_than = "None"
    /\ pixel_value = 0
    /\ draw \in DrawsOf(RaLow, RaHigh) \X DrawsOf(DecLow, DecHigh)

\* gen_rand_loc / generate_rand_loc: round both draws and return them
GenRandLoc ==
    /\ pc = "sample_start"
    /\ ra' = Round3(draw[1])
    /\ dec' = Round3(draw[2])
    /\ pc' = "sample_done"
    /\ UNCHANGED <<impl, image, corners, zoomed_in, img_hist, uniform_norm,
                   img_eq, draw, greater_or_less_than, pixel_value>>
    /\ UNCHANGED ctl
    /\ UNCHANGED ext
    /\ UNCHANGED locals

SampleNext ==
    \/ GenRandLoc

SampleSpec == SampleInit /\ [][SampleNext]_vars

(***************************************************************************)
(* __find_corners and __is_zoomed_in on their own.  An image is a sequence *)
(* of rows of grey values; the code's 0-based pixel (r, c) is              *)
(* image[r + 1][c + 1].                                                    *)
(***************************************************************************)
\* images have at most MaxImgRows rows and MaxImgCols columns
MaxImgRows == 3
MaxImgCols == 3

WHITE_PX_VAL == 255
BLACK_PX_VAL == 0

\* grey values a non-white pixel of an image takes
DarkVals == {BLACK_PX_VAL, WHITE_PX_VAL - 1}

\* images of white pixels and pixels of one darker value
Images ==
    UNION {UNION {UNION {[1..nr -> [1..nc -> {d, WHITE_PX_VAL}]]
                             : d \in DarkVals}
                      : nc \in 1..MaxImgCols}
               : nr \in 1..MaxImgRows}

num_rows(img) == Len(img)
num_cols(img) == Len(img[1])

\* range(n) and reversed(range(n))
RangeOf(n) == [i \in 1..n |-> i - 1]
ReversedRange(n) == [i \in 1..n |-> n - i]

\* operator.lt / operator.gt
Compare(op, a, b) == IF op = "lt" THEN a < b ELSE a > b

\* "for row_idx in rows: for col_idx in cols": pixels in the order visited
RowsThenCols(rows, cols) ==
    [k \in 1..(Len(rows) * Len(cols)) |->
        <<rows[((k - 1) \div Len(cols)) + 1], cols[((k - 1) % Len(cols)) + 1]>>]

\* "for col_idx in cols: for row_idx in rows": pixels in the order visited
ColsThenRows(cols, rows) ==
    [k \in 1..(Len(rows) * Len(cols)) |->
        <<rows[((k - 1) % Len(rows)) + 1], cols[((k - 1) \div Len(rows)) + 1]>>]

\* the corner a scan assigns before it breaks, <<>> when it assigns none
RECURSIVE ScanFrom(_, _, _, _, _)
ScanFrom(img, op, val, order, k) ==
    IF k > Len(order) THEN <<>>
    ELSE LET r == order[k][1]
             c == order[k][2]
         IN  IF Compare(op, img[r + 1][c + 1], val)
             THEN <<r, c, img[r + 1][c + 1]>>
             ELSE ScanFrom(img, op, val, order, k + 1)

\* order of the columns in the scan for the right corner
RightColsMut(img) == RangeOf(num_cols(img))
RightCols(img) == ReversedRange(num_cols(img))

top_corner(img, op, val) ==
    ScanFrom(img, op, val,
             RowsThenCols(RangeOf(num_rows(img)), RangeOf(num_cols(img))), 1)
bottom_corner(img, op, val) ==
    ScanFrom(img, op, val,
             RowsThenCols(ReversedRange(num_rows(img)),
                          RangeOf(num_cols(img))), 1)
left_corner(img, op, val) ==
    ScanFrom(img, op, val,
             ColsThenRows(RangeOf(num_cols(img)), RangeOf(num_rows(img))), 1)
right_corner(img, op, val) ==
    ScanFrom(img, op, val,
             ColsThenRows(RightCols(img), RangeOf(num_rows(img))), 1)

\* None as the value of a row index
NoneIdx == 0 - 1

\* the row __is_zoomed_in finds in column 0, None when it finds none
RECURSIVE PointRowFrom(_, _, _)
PointRowFrom(img, rows, k) ==
    IF k > Len(rows) THEN NoneIdx
    ELSE IF img[rows[k] + 1][1] < WHITE_PX_VAL THEN rows[k]
         ELSE PointRowFrom(img, rows, k + 1)

\* the condition under which __is_zoomed_in sets zoomed_in
ZoomedTestMut(first, second) == first # NoneIdx /\ second # NoneIdx
ZoomedTest(first, second) ==
    first # second /\ first # NoneIdx /\ second # NoneIdx

ImgInit ==
    /\ impl = "gi"
    /\ pc = "img_start"
    /\ ra = 0
    /\ dec = 0
    /\ ControllerIdle
    /\ ExtIdle
    /\ image \in Images
    /\ \E a \in {<<"lt", WHITE_PX_VAL>>, <<"gt", BLACK_PX_VAL>>} :
           /\ greater_or_less_than = a[1]
           /\ pixel_value = a[2]
    /\ corners = <<>>
    /\ zoomed_in = FALSE
    /\ img_hist = <<>>
    /\ uniform_norm = <<>>
    /\ img_eq = <<>>
    /\ draw = <<>>

\* __find_corners: the four scans each assign their corner
FindCorners ==
    /\ pc = "img_start"
    /\ top_corner(image, greater_or_less_than, pixel_value) # <<>>
    /\ corners' = <<top_corner(image, greater_or_less_than, pixel_value),
                    bottom_corner(image, greater_or_less_than, pixel_value),
                    left_corner(image, greater_or_less_than, pixel_value),
                    right_corner(image, greater_or_less_than, pixel_value)>>
    /\ pc' = "corners_done"
    /\ UNCHANGED <<impl, ra, dec, image, zoomed_in, img_hist, uniform_norm,
                   img_eq, draw, greater_or_less_than, pixel_value>>
    /\ UNCHANGED ctl
    /\ UNCHANGED ext
    /\ UNCHANGED locals

\* __find_corners: no scan assigns, the return statement reads top_corner
FindCornersUnbound ==
    /\ pc = "img_start"
    /\ top_corner(image, greater_or_less_than, pixel_value) = <<>>
    /\ pc' = "corners_unbound"
    /\ UNCHANGED <<impl, ra, dec, image, corners, zoomed_in, img_hist,
                   uniform_norm, img_eq, draw, greater_or_less_than,
                   pixel_value>>
    /\ UNCHANGED ctl
    /\ UNCHANGED ext
    /\ UNCHANGED locals

\* __is_zoomed_in
IsZoomedIn ==
    /\ pc = "img_start"
    /\ LET first_point_row_idx ==
               PointRowFrom(image, RangeOf(num_rows(image)), 1)
           second_point_row_idx ==
               PointRowFrom(image, ReversedRange(num_rows(image)), 1)
       IN  zoomed_in' = ZoomedTest(first_point_row_idx, second_point_row_idx)
    /\ pc' = "zoomed_done"
    /\ UNCHANGED <<impl, ra, dec, image, corners, img_hist, uniform_norm,
                   img_eq, draw, greater_or_less_than, pixel_value>>
    /\ UNCHANGED ctl
    /\ UNCHANGED ext
    /\ UNCHANGED locals

\* __straighten_img: the quotient given to math.tan, from the corners that
\* __find_corners(image_data, operator.lt, WHITE_PX_VAL) returned
EstimateAngle ==
    /\ pc = "corners_done"
    /\ greater_or_less_than = "lt"
    /\ corners[4][2] - corners[1][2] # 0
    /\ slope' = <<corners[4][1] - corners[1][1], corners[4][2] - corners[1][2]>>
    /\ pc' = "angle_done"
    /\ UNCHANGED <<impl, ra, dec>>
    /\ UNCHANGED routines
    /\ UNCHANGED ctl
    /\ UNCHANGED locals
    /\ UNCHANGED fmt
    /\ UNCHANGED io
    /\ UNCHANGED <<rotated, edges, zoom_corners, zoom_crop, reads>>

\* __straighten_img: the column difference is zero, the division raises
\* ZeroDivisionError
EstimateAngleFails ==
    /\ pc = "corners_done"
    /\ greater_or_less_than = "lt"
    /\ corners[4][2] - corners[1][2] = 0
    /\ pc' = "angle_zero_division"
    /\ UNCHANGED <<impl, ra, dec>>
    /\ UNCHANGED routines
    /\ UNCHANGED ctl
    /\ UNCHANGED locals
    /\ UNCHANGED ext

ImgNext ==
    \/ FindCorners
    \/ FindCornersUnbound
    \/ IsZoomedIn
    \/ EstimateAngle
    \/ EstimateAngleFails

ImgSpec == ImgInit /\ [][ImgNext]_vars

(***************************************************************************)
(* __enhance_contrast on its own.  img_hist, cum_sum and uniform_norm are  *)
(* sequences of bins entries: entry v + 1 is the code's element v.         *)
(***************************************************************************)
\* buffers have at most MaxBufRows rows and MaxBufCols columns
MaxBufRows == 2
MaxBufCols == 2

bins == 256

\* intensities the pixels of a buffer take
Levels == {0, 100, 255}

Buffers ==
    UNION {UNION {[1..nr -> [1..nc -> Levels]] : nc \in 1..MaxBufCols}
               : nr \in 1..MaxBufRows}

\* img_matrix.flatten()
RECURSIVE Flatten(_)
Flatten(m) == IF m = <<>> THEN <<>> ELSE Head(m) \o Flatten(Tail(m))

\* "img_hist[pix] += 1" with pix an array of indices: every element that
\* pix names is set to its old value plus one, once
AddAt(hist, pix) ==
    [v \in 1..bins |-> IF v - 1 \in Range(pix) THEN hist[v] + 1 ELSE hist[v]]

\* "for pix in img_matrix: img_hist[pix] += 1": pix is a row of the matrix
RECURSIVE HistFrom(_, _, _)
HistFrom(m, i, hist) ==
    IF i > Len(m) THEN hist
    ELSE HistFrom(m, i + 1, AddAt(hist, m[i]))

\* sum of the entries of hist at the indices of S
RECURSIVE SumBins(_, _)
SumBins(hist, S) ==
    IF S = {} THEN 0
    ELSE LET v == CHOOSE x \in S : TRUE
         IN  hist[v] + SumBins(hist, S \ {v})

\* np.cumsum: entry v is the sum of the entries up to v; the entries that
\* are zero add nothing
CumSum(hist) ==
    LET nonzero == {u \in 1..Len(hist) : hist[u] # 0}
    IN  [v \in 1..Len(hist) |-> SumBins(hist, {u \in nonzero : u <= v})]

\* cum_sum.min() and cum_sum.max()
ArrMin(a) == CHOOSE m \in Range(a) : \A x \in Range(a) : m <= x
ArrMax(a) == CHOOSE m \in Range(a) : \A x \in Range(a) : m >= x

\* n_ = cum_sum.max() - cum_sum.min()
NormSpan(hist) == ArrMax(CumSum(hist)) - ArrMin(CumSum(hist))

\* ((cum_sum - cum_sum.min()) * 255 / n_).astype('int'), n_ not zero; the
\* quotients are not negative, so the truncation is the integer quotient
Lookup(hist) ==
    LET cum_sum == CumSum(hist)
        lo == ArrMin(cum_sum)
        n_ == ArrMax(cum_sum) - lo
    IN  [v \in 1..bins |-> ((cum_sum[v] - lo) * 255) \div n_]

\* values astype('int') gives for nan: 0, or the least int of 32 bits
NanAsInt == {0, (0 - 2147483647) - 1}

EqInit ==
    /\ impl = "aih"
    /\ pc = "eq_start"
    /\ ra = 0
    /\ dec = 0
    /\ ControllerIdle
    /\ ExtIdle
    /\ image \in Buffers
    /\ corners = <<>>
    /\ zoomed_in = FALSE
    /\ img_hist = <<>>
    /\ uniform_norm = <<>>
    /\ img_eq = <<>>
    /\ draw = <<>>
    /\ greater_or_less_than = "None"
    /\ pixel_value = 0

\* img_hist = np.zeros(bins) and the loop that fills it
EqHist ==
    /\ pc = "eq_start"
    /\ img_hist' = HistFrom(image, 1, [v \in 1..bins |-> 0])
    /\ pc' = "eq_hist"
    /\ UNCHANGED <<impl, ra, dec, image, corners, zoomed_in, uniform_norm,
                   img_eq, draw, greater_or_less_than, pixel_value>>
    /\ UNCHANGED ctl
    /\ UNCHANGED ext
    /\ UNCHANGED locals

\* the lookup table
EqNorm ==
    /\ pc = "eq_hist"
    /\ NormSpan(img_hist) # 0
    /\ uniform_norm' = Lookup(img_hist)
    /\ pc' = "eq_norm"
    /\ UNCHANGED <<impl, ra, dec, image, corners, zoomed_in, img_hist,
                   img_eq, draw, greater_or_less_than, pixel_value>>
    /\ UNCHANGED ctl
    /\ UNCHANGED ext
    /\ UNCHANGED locals

\* the lookup table when n_ is zero: every entry is 0 / 0
EqNormNan ==
    /\ pc = "eq_hist"
    /\ NormSpan(img_hist) = 0
    /\ \E x \in NanAsInt : uniform_norm' = [v \in 1..bins |-> x]
    /\ pc' = "eq_norm"
    /\ UNCHANGED <<impl, ra, dec, image, corners, zoomed_in, img_hist,
                   img_eq, draw, greater_or_less_than, pixel_value>>
    /\ UNCHANGED ctl
    /\ UNCHANGED ext
    /\ UNCHANGED locals

\* img_eq = uniform_norm[img_flattened], reshaped to the shape of img_matrix
EqRemap ==
    /\ pc = "eq_norm"
    /\ img_eq' = [r \in 1..Len(image) |->
                     [c \in 1..Len(image[r]) |->
                         uniform_norm[
                             Flatten(image)[(r - 1) * Len(image[r]) + c] + 1]]]
    /\ pc' = "eq_done"
    /\ UNCHANGED <<impl, ra, dec, image, corners, zoomed_in, img_hist,
                   uniform_norm, draw, greater_or_less_than, pixel_value>>
    /\ UNCHANGED ctl
    /\ UNCHANGED ext
    /\ UNCHANGED locals

EqNext ==
    \/ EqHist
    \/ EqNorm
    \/ EqNormNan
    \/ EqRemap

EqSpec == EqInit /\ [][EqNext]_vars

(***************************************************************************)
(* format_dataset.py.  A file <n>.txt or <n>.jpeg is its ID n; label_files *)
(* and data_files give, for each entry of subdirs, the IDs present.        *)
(***************************************************************************)
\* file IDs of the dataset before the run are 0..MaxFileId
MaxFileId == 1

subdirs == <<"train", "validate", "test">>

\* label_Ids.sort(): the IDs of S in ascending order
SortAsc(S) ==
    CHOOSE q \in [1..Cardinality(S) -> S] :
        \A i, j \in 1..Cardinality(S) : i < j => q[i] < q[j]

RECURSIVE SumCard(_, _)
SumCard(f, i) == IF i = 0 THEN 0 ELSE Cardinality(f[i]) + SumCard(f, i - 1)

FmtInit ==
    /\ impl = "aih"
    /\ pc = "fmt_subdir"
    /\ ra = 0
    /\ dec = 0
    /\ ControllerIdle
    /\ RoutinesIdle
    /\ StrIdle
    /\ IoIdle
    /\ label_files \in [1..Len(subdirs) -> SUBSET (0..MaxFileId)]
    /\ data_files \in [1..Len(subdirs) -> SUBSET (0..MaxFileId)]
    /\ data_Id = 0
    /\ subdir_idx = 1
    /\ label_Ids = <<>>
    /\ label_pos = 0
    /\ labels_at_start = SumCard(label_files, Len(subdirs))

\* "for subdir in subdirs": list and sort the labels, remove the data files
\* that have no label
FmtList ==
    /\ pc = "fmt_subdir"
    /\ subdir_idx <= Len(subdirs)
    /\ label_Ids' = SortAsc(label_files[subdir_idx])
    /\ data_files' = [data_files EXCEPT
                         ![subdir_idx] = @ \cap label_files[subdir_idx]]
    /\ label_pos' = 1
    /\ pc' = "fmt_rename"
    /\ UNCHANGED <<label_files, data_Id, subdir_idx, labels_at_start>>
    /\ UNCHANGED <<impl, ra, dec>>
    /\ UNCHANGED ctl
    /\ UNCHANGED locals
    /\ UNCHANGED routines
    /\ UNCHANGED str
    /\ UNCHANGED io

\* "for old_label_Id in label_Ids": both renames; os.rename replaces a file
\* that has the new name
FmtRename ==
    /\ pc = "fmt_rename"
    /\ label_pos <= Len(label_Ids)
    /\ label_Ids[label_pos] \in data_files[subdir_idx]
    /\ data_files' = [data_files EXCEPT
                         ![subdir_idx] =
                             (@ \ {label_Ids[label_pos]}) \cup {data_Id}]
    /\ label_files' = [label_files EXCEPT
                          ![subdir_idx] =
                              (@ \ {label_Ids[label_pos]}) \cup {data_Id}]
    /\ data_Id' = data_Id + 1
    /\ label_pos' = label_pos + 1
    /\ UNCHANGED <<pc, subdir_idx, label_Ids, labels_at_start>>
    /\ UNCHANGED <<impl, ra, dec>>
    /\ UNCHANGED ctl
    /\ UNCHANGED locals
    /\ UNCHANGED routines
    /\ UNCHANGED str
    /\ UNCHANGED io

\* the data file of the label does not exist: os.rename raises
\* FileNotFoundError and the script ends
FmtRenameFails ==
    /\ pc = "fmt_rename"
    /\ label_pos <= Len(label_Ids)
    /\ label_Ids[label_pos] \notin data_files[subdir_idx]
    /\ pc' = "fmt_crashed"
    /\ UNCHANGED fmt
    /\ UNCHANGED io
    /\ UNCHANGED <<impl, ra, dec>>
    /\ UNCHANGED ctl
    /\ UNCHANGED locals
    /\ UNCHANGED routines
    /\ UNCHANGED str

\* the labels of the subdirectory are exhausted
FmtNextSubdir ==
    /\ pc = "fmt_rename"
    /\ label_pos > Len(label_Ids)
    /\ subdir_idx' = subdir_idx + 1
    /\ pc' = "fmt_subdir"
    /\ UNCHANGED <<label_files, data_files, data_Id, label_Ids, label_pos,
                   labels_at_start>>
    /\ UNCHANGED <<impl, ra, dec>>
    /\ UNCHANGED ctl
    /\ UNCHANGED locals
    /\ UNCHANGED routines
    /\ UNCHANGED str
    /\ UNCHANGED io

\* subdirs is exhausted
FmtDone ==
    /\ pc = "fmt_subdir"
    /\ subdir_idx > Len(subdirs)
    /\ pc' = "fmt_done"
    /\ UNCHANGED fmt
    /\ UNCHANGED io
    /\ UNCHANGED <<impl, ra, dec>>
    /\ UNCHANGED ctl
    /\ UNCHANGED locals
    /\ UNCHANGED routines
    /\ UNCHANGED str

FmtNext ==
    \/ FmtList
    \/ FmtRename
    \/ FmtRenameFails
    \/ FmtNextSubdir
    \/ FmtDone

FmtSpec == FmtInit /\ [][FmtNext]_vars

(***************************************************************************)
(* __straighten_img after the rotation: the corners of the rotated buffer  *)
(* and the four inward scans.  The rotation itself is not modelled; the    *)
(* rotated buffer is drawn from the buffers of black fill, white           *)
(* background and one content value.                                       *)
(***************************************************************************)
\* rotated buffers have at most MaxRotRows rows and MaxRotCols columns
MaxRotRows == 3
MaxRotCols == 3

\* grey values of a rotated buffer: fill, content, background
RotVals == {BLACK_PX_VAL, 100, WHITE_PX_VAL}

RotBuffers ==
    UNION {UNION {[1..nr -> [1..nc -> RotVals]] : nc \in 1..MaxRotCols}
               : nr \in 1..MaxRotRows}

\* range(start, stop) and range(start, 0, -1)
RangeFrom(start, stop) == [k \in 1..(stop - start) |-> start + k - 1]
RangeDownFrom(start) == [k \in 1..start |-> start - k + 1]

\* the pixels a scan along the column of corner visits, for the given rows
AlongCol(corner, rows) == [k \in 1..Len(rows) |-> <<rows[k], corner[2]>>]
\* the pixels a scan along the row of corner visits, for the given columns
AlongRow(corner, cols) == [k \in 1..Len(cols) |-> <<corner[1], cols[k]>>]

\* the edge a scan assigns before it breaks, <<>> when it assigns none
EdgeScan(buf, order) == ScanFrom(buf, "lt", WHITE_PX_VAL, order, 1)

top_edge(buf, corner) ==
    EdgeScan(buf, AlongCol(corner, RangeFrom(corner[1], num_rows(buf))))
bottom_edge(buf, corner) ==
    EdgeScan(buf, AlongCol(corner, RangeDownFrom(corner[1])))
left_edge(buf, corner) ==
    EdgeScan(buf, AlongRow(corner, RangeFrom(corner[2], num_cols(buf))))
right_edge(buf, corner) ==
    EdgeScan(buf, AlongRow(corner, RangeDownFrom(corner[2])))

RotInit ==
    /\ impl = "gi"
    /\ pc = "rot_start"
    /\ ra = 0
    /\ dec = 0
    /\ ControllerIdle
    /\ RoutinesIdle
    /\ FmtIdle
    /\ IoIdle
    /\ slope = <<>>
    /\ rotated \in RotBuffers
    /\ edges = <<>>
    /\ zoom_corners = <<>>
    /\ zoom_crop = <<>>
    /\ reads = {}

\* __find_corners(rotated, operator.gt, BLACK_PX_VAL) returns
RotCorners ==
    /\ pc = "rot_start"
    /\ top_corner(rotated, "gt", BLACK_PX_VAL) # <<>>
    /\ corners' = <<top_corner(rotated, "gt", BLACK_PX_VAL),
                    bottom_corner(rotated, "gt", BLACK_PX_VAL),
                    left_corner(rotated, "gt", BLACK_PX_VAL),
                    right_corner(rotated, "gt", BLACK_PX_VAL)>>
    /\ pc' = "rot_corners"
    /\ UNCHANGED <<impl, ra, dec, image, zoomed_in, img_hist, uniform_norm,
                   img_eq, draw, greater_or_less_than, pixel_value>>
    /\ UNCHANGED ctl
    /\ UNCHANGED locals
    /\ UNCHANGED ext

\* __find_corners(rotated, operator.gt, BLACK_PX_VAL) finds no pixel
RotCornersUnbound ==
    /\ pc = "rot_start"
    /\ top_corner(rotated, "gt", BLACK_PX_VAL) = <<>>
    /\ pc' = "rot_corners_unbound"
    /\ UNCHANGED <<impl, ra, dec>>
    /\ UNCHANGED routines
    /\ UNCHANGED ctl
    /\ UNCHANGED locals
    /\ UNCHANGED ext

\* the four loops "Find top edge" .. "Find right edge"
InwardScans ==
    /\ pc = "rot_corners"
    /\ edges' = <<top_edge(rotated, corners[1]),
                  bottom_edge(rotated, corners[2]),
                  left_edge(rotated, corners[3]),
                  right_edge(rotated, corners[4])>>
    /\ pc' = "rot_scanned"
    /\ UNCHANGED <<impl, ra, dec>>
    /\ UNCHANGED routines
    /\ UNCHANGED ctl
    /\ UNCHANGED locals
    /\ UNCHANGED fmt
    /\ UNCHANGED io
    /\ UNCHANGED <<slope, rotated, zoom_corners, zoom_crop, reads>>

\* "Crop image": every edge is bound
RotCrop ==
    /\ pc = "rot_scanned"
    /\ \A i \in 1..4 : edges[i] # <<>>
    /\ pc' = "rot_cropped"
    /\ UNCHANGED <<impl, ra, dec>>
    /\ UNCHANGED routines
    /\ UNCHANGED ctl
    /\ UNCHANGED locals
    /\ UNCHANGED ext

\* "Crop image" reads an edge that no scan assigned: UnboundLocalError
RotCropUnbound ==
    /\ pc = "rot_scanned"
    /\ \E i \in 1..4 : edges[i] = <<>>
    /\ pc' = "rot_edge_unbound"
    /\ UNCHANGED <<impl, ra, dec>>
    /\ UNCHANGED routines
    /\ UNCHANGED ctl
    /\ UNCHANGED locals
    /\ UNCHANGED ext

RotNext ==
    \/ RotCorners
    \/ RotCornersUnbound
    \/ InwardScans
    \/ RotCrop
    \/ RotCropUnbound

RotSpec == RotInit /\ [][RotNext]_vars

(***************************************************************************)
(* __straighten_zoomed_img, called by __fetch_img on the exposures that    *)
(* __is_zoomed_in classifies as zoomed.  numpy takes a negative index i of *)
(* an axis of length n as n + i, and raises IndexError outside -n .. n - 1.*)
(***************************************************************************)
\* one corner scan: "for row_idx in rows: for col_idx in cols:" where a miss
\* adds step to row_idx until the inner loop ends; i and k are the positions
\* in rows and cols, seen the indices read so far
RECURSIVE DiagFrom(_, _, _, _, _, _, _)
DiagFrom(img, rows, cols, step, i, k, seen) ==
    IF i > Len(rows) THEN [kind |-> "unbound", corner |-> <<>>, seen |-> seen]
    ELSE IF k > Len(cols) THEN DiagFrom(img, rows, cols, step, i + 1, 1, seen)
    ELSE LET r == rows[i] + step * (k - 1)
             c == cols[k]
             n == num_rows(img)
         IN  IF r >= n \/ r < 0 - n
             THEN [kind |-> "IndexError", corner |-> <<>>,
                   seen |-> seen \cup {<<r, c>>}]
             ELSE LET v == img[(IF r < 0 THEN n + r ELSE r) + 1][c + 1]
                  IN  IF v < WHITE_PX_VAL
                      THEN [kind |-> "found", corner |-> <<r, c, v>>,
                            seen |-> seen \cup {<<r, c>>}]
                      ELSE DiagFrom(img, rows, cols, step, i, k + 1,
                                    seen \cup {<<r, c>>})

left_upper(img) ==
    DiagFrom(img, RangeOf(num_rows(img)), RangeOf(num_cols(img)), 1, 1, 1, {})
right_upper(img) ==
    DiagFrom(img, RangeOf(num_rows(img)), ReversedRange(num_cols(img)),
             1, 1, 1, {})
left_lower(img) ==
    DiagFrom(img, ReversedRange(num_rows(img)), RangeOf(num_cols(img)),
             0 - 1, 1, 1, {})
right_lower(img) ==
    DiagFrom(img, ReversedRange(num_rows(img)), ReversedRange(num_cols(img)),
             0 - 1, 1, 1, {})

\* the four scans in program order
ZoomScansOf(img) ==
    <<left_upper(img), right_upper(img), left_lower(img), right_lower(img)>>

\* number of scans that run: all four, or up to the first that raises
RECURSIVE ScansRun(_, _)
ScansRun(sc, i) ==
    IF i > Len(sc) THEN Len(sc)
    ELSE IF sc[i].kind # "found" THEN i
    ELSE ScansRun(sc, i + 1)

\* "if a[0] > b[0]: a else: b" and "if a[0] < b[0]: a else: b"
GreaterOrSecond(a, b, x) == IF a[x] > b[x] THEN a ELSE b
LesserOrSecond(a, b, x) == IF a[x] < b[x] THEN a ELSE b

\* the indices of an axis of length n that the slice start:stop selects
SliceBound(x, n) ==
    IF x < 0 THEN (IF x + n < 0 THEN 0 ELSE x + n)
    ELSE (IF x > n THEN n ELSE x)
Slice(start, stop, n) ==
    {i \in 0..(n - 1) : SliceBound(start, n) <= i /\ i < SliceBound(stop, n)}

ZoomInit ==
    /\ impl = "gi"
    /\ pc = "zoom_start"
    /\ ra = 0
    /\ dec = 0
    /\ ControllerIdle
    /\ FmtIdle
    /\ IoIdle
    /\ image \in Images
    /\ corners = <<>>
    /\ zoomed_in = FALSE
    /\ img_hist = <<>>
    /\ uniform_norm = <<>>
    /\ img_eq = <<>>
    /\ draw = <<>>
    /\ greater_or_less_than = "None"
    /\ pixel_value = 0
    /\ StrIdle

\* __fetch_img: zoomed = self.__is_zoomed_in(exposure_path)
ZoomedCheck ==
    /\ pc = "zoom_start"
    /\ LET first_point_row_idx ==
               PointRowFrom(image, RangeOf(num_rows(image)), 1)
           second_point_row_idx ==
               PointRowFrom(image, ReversedRange(num_rows(image)), 1)
           z == ZoomedTest(first_point_row_idx, second_point_row_idx)
       IN  /\ zoomed_in' = z
           /\ pc' = IF z THEN "zoom_scan" ELSE "zoom_not_zoomed"
    /\ UNCHANGED <<impl, ra, dec, image, corners, img_hist, uniform_norm,
                   img_eq, draw, greater_or_less_than, pixel_value>>
    /\ UNCHANGED ctl
    /\ UNCHANGED locals
    /\ UNCHANGED ext

\* __straighten_zoomed_img: the four corner scans, up to the first that
\* raises
ZoomScans ==
    /\ pc = "zoom_scan"
    /\ LET sc == ZoomScansOf(image)
           n == ScansRun(sc, 1)
       IN  /\ zoom_corners' = [i \in 1..4 |->
                                  IF i <= n THEN sc[i].corner ELSE <<>>]
           /\ reads' = UNION {sc[i].seen : i \in 1..n}
           /\ pc' = IF \A i \in 1..4 : sc[i].kind = "found"
                    THEN "zoom_scanned"
                    ELSE IF sc[n].kind = "IndexError" THEN "zoom_index_error"
                    ELSE "zoom_unbound"
    /\ UNCHANGED <<impl, ra, dec>>
    /\ UNCHANGED routines
    /\ UNCHANGED ctl
    /\ UNCHANGED locals
    /\ UNCHANGED fmt
    /\ UNCHANGED io
    /\ UNCHANGED <<slope, rotated, edges, zoom_crop>>

\* the four "Find ... value" tests and the crop
ZoomCrop ==
    /\ pc = "zoom_scanned"
    /\ LET top_value == GreaterOrSecond(zoom_corners[1], zoom_corners[2], 1)
           bottom_value == LesserOrSecond(zoom_corners[3], zoom_corners[4], 1)
           left_value == GreaterOrSecond(zoom_corners[1], zoom_corners[3], 2)
           right_value == LesserOrSecond(zoom_corners[2], zoom_corners[4], 2)
       IN  zoom_crop' =
               [top_value |-> top_value,
                bottom_value |-> bottom_value,
                left_value |-> left_value,
                right_value |-> right_value,
                rows |-> Slice(top_value[1], bottom_value[1],
                               num_rows(image)),
                cols |-> Slice(left_value[2], right_value[2],
                               num_cols(image))]
    /\ pc' = "zoom_cropped"
    /\ UNCHANGED <<impl, ra, dec>>
    /\ UNCHANGED routines
    /\ UNCHANGED ctl
    /\ UNCHANGED locals
    /\ UNCHANGED fmt
    /\ UNCHANGED io
    /\ UNCHANGED <<slope, rotated, edges, zoom_corners, reads>>

ZoomNext ==
    \/ ZoomedCheck
    \/ ZoomScans
    \/ ZoomCrop

ZoomSpec == ZoomInit /\ [][ZoomNext]_vars

(***************************************************************************)
(* __all_sky_search: gen_img_set of astro_img_handling.py with             *)
(* process_manually = False.  A file is written only by a __save_img call  *)
(* that returns: __save_img raises before it opens the file.               *)
(***************************************************************************)
\* rows of the all-sky table
MaxSkyRows == 4
\* failed downloads followed in one run
MaxAttempts == 2

SkyTables == SeqsUpTo(1..NumSelKeys, MaxSkyRows)

\* "img_url = img_urls[0]"
FirstUrlMut(img_urls) == img_urls[Len(img_urls)]
FirstUrl(img_urls) == img_urls[1]

\* what the all-sky run leaves alone
sky_rest == <<impl, ra, dec, prev_locs, files, outputs, edge, lastExc, tried,
              committed_out, failed_loc, img_table, img_table_assigned,
              loc_index, exposure_urls, exposure_count, exposure_path_list,
              normalized, zoomed, straightened_by>>

SkyInit ==
    /\ impl = "aih"
    /\ pc = "sky_query"
    /\ ra = 0
    /\ dec = 0
    /\ ControllerIdle
    /\ RoutinesIdle
    /\ FmtIdle
    /\ StrIdle
    /\ NetIdle
    /\ all_sky_img_table = <<>>
    /\ num_imgs = 0
    /\ saved = <<>>
    /\ attempts = 0

\* the all-sky query returns and its rows are grouped by (RA, DEC)
SkyGroup ==
    /\ pc = "sky_query"
    /\ \E t \in SkyTables :
           /\ all_sky_img_table' = t
           /\ grouped_img_urls' = GroupRows(t)
           /\ num_imgs' = Len(GroupRows(t))
    /\ img_idx' = 0
    /\ pc' = "sky_save"
    /\ UNCHANGED <<saved, attempts>>
    /\ UNCHANGED sky_rest
    /\ UNCHANGED routines
    /\ UNCHANGED fmt
    /\ UNCHANGED str
    /\ UNCHANGED net

\* the all-sky query raises: nothing in gen_img_set catches it
SkyQueryFails ==
    /\ pc = "sky_query"
    /\ pc' = "sky_crashed"
    /\ UNCHANGED <<img_idx, grouped_img_urls>>
    /\ UNCHANGED sky
    /\ UNCHANGED sky_rest
    /\ UNCHANGED routines
    /\ UNCHANGED fmt
    /\ UNCHANGED str
    /\ UNCHANGED net

\* __save_img returns: the file of this index is written, "break", and the
\* for loop takes the next group
SkySaveOk ==
    /\ pc = "sky_save"
    /\ img_idx < num_imgs
    /\ saved' = Append(saved,
                       <<img_idx, FirstUrl(grouped_img_urls[img_idx + 1].urls)>>)
    /\ img_idx' = img_idx + 1
    /\ UNCHANGED <<pc, grouped_img_urls, all_sky_img_table, num_imgs,
                   attempts>>
    /\ UNCHANGED sky_rest
    /\ UNCHANGED routines
    /\ UNCHANGED fmt
    /\ UNCHANGED str
    /\ UNCHANGED net

\* __save_img raises one of the caught connection failures: "continue"
SkySaveFails ==
    /\ pc = "sky_save"
    /\ img_idx < num_imgs
    /\ attempts < MaxAttempts
    /\ attempts' = attempts + 1
    /\ UNCHANGED <<pc, img_idx, grouped_img_urls, all_sky_img_table,
                   num_imgs, saved>>
    /\ UNCHANGED sky_rest
    /\ UNCHANGED routines
    /\ UNCHANGED fmt
    /\ UNCHANGED str
    /\ UNCHANGED net

\* the groups are exhausted: __all_sky_search returns
SkyDone ==
    /\ pc = "sky_save"
    /\ img_idx >= num_imgs
    /\ pc' = "sky_done"
    /\ UNCHANGED <<img_idx, grouped_img_urls>>
    /\ UNCHANGED sky
    /\ UNCHANGED sky_rest
    /\ UNCHANGED routines
    /\ UNCHANGED fmt
    /\ UNCHANGED str
    /\ UNCHANGED net

SkyNext ==
    \/ SkyGroup
    \/ SkyQueryFails
    \/ SkySaveOk
    \/ SkySaveFails
    \/ SkyDone

SkySpec == SkyInit /\ [][SkyNext]_vars

(***************************************************************************)
(* send_data.py: one ClientPortal and one ServerPortal over a TCP          *)
(* connection.  The state after construction: the server listens, the      *)
(* client's connect has put its connection in the listen queue.  Each      *)
(* direction of the connection is a FIFO of bytes of bounded room; a       *)
(* blocking call waits while its action is not enabled.                    *)
(***************************************************************************)
\* bytes of the file the client sends, and of the file the server sends
MaxFileLen == 3
MaxRespLen == 2
\* bytes one recv call returns at most (_CONNECTION_BUFFER_SIZE, scaled)
CONNECTION_BUFFER_SIZE == 2
\* bytes a direction of the connection holds before sendfile blocks
SockBuf == 2
\* ServerPortal calls followed in one run
MaxCalls == 3

Bytes == {0, 1}
Drivers == {"raspi_server", "calls"}

MinOf(a, b) == IF a < b THEN a ELSE b

\* "data = recv(_CONNECTION_BUFFER_SIZE)" with bytes in flight
RecvData(buf) == SubSeq(buf, 1, MinOf(Len(buf), CONNECTION_BUFFER_SIZE))
RecvRest(buf) ==
    SubSeq(buf, MinOf(Len(buf), CONNECTION_BUFFER_SIZE) + 1, Len(buf))

\* "if not data: break": recv returns b"" once the peer has shut down its
\* write side and every byte was read
EndOfStreamMut(buf, fin) == buf = <<>>
EndOfStream(buf, fin) == buf = <<>> /\ fin

\* "if not self.conn": a socket object is true, open or closed
NoConn(c) == c = "None"

\* sendfile on a closed socket: an empty file returns 0 before the socket is
\* touched, otherwise registering or writing descriptor -1 raises
SendOnClosed(f) ==
    IF Len(f) = 0 THEN {"returned"} ELSE {"ValueError", "OSError"}

\* what the portals leave alone
net_rest == <<impl, pc, ra, dec>>

NetInit ==
    /\ impl = "aih"
    /\ pc = "net"
    /\ ra = 0
    /\ dec = 0
    /\ ControllerIdle
    /\ RoutinesIdle
    /\ FmtIdle
    /\ StrIdle
    /\ SkyIdle
    /\ driver \in Drivers
    /\ send_f \in SeqsUpTo(Bytes, MaxFileLen)
    /\ resp_f \in SeqsUpTo(Bytes, MaxRespLen)
    /\ cpc = "c_sendfile"
    /\ spc = "s_idle"
    /\ c2s = <<>>
    /\ c2s_fin = FALSE
    /\ s2c = <<>>
    /\ s2c_fin = FALSE
    /\ req_pos = 0
    /\ resp_pos = 0
    /\ save_f = <<>>
    /\ recv_f = <<>>
    /\ conn = "None"
    /\ pending = TRUE
    /\ send_result = "None"
    /\ conn_at_send = "None"
    /\ calls = 0

NetFrame ==
    /\ UNCHANGED net_rest
    /\ UNCHANGED ctl
    /\ UNCHANGED locals
    /\ UNCHANGED routines
    /\ UNCHANGED fmt
    /\ UNCHANGED str
    /\ UNCHANGED sky

\* make_request: self.socket.sendfile(req_f) hands over the next byte
ClientSendfile ==
    /\ cpc = "c_sendfile"
    /\ req_pos < Len(send_f)
    /\ Len(c2s) < SockBuf
    /\ c2s' = Append(c2s, send_f[req_pos + 1])
    /\ req_pos' = req_pos + 1
    /\ UNCHANGED <<driver, send_f, resp_f, cpc, spc, c2s_fin, s2c, s2c_fin,
                   resp_pos, save_f, recv_f, conn, pending, send_result,
                   conn_at_send, calls>>
    /\ NetFrame

\* make_request: sendfile has returned; shutdown(SHUT_WR), open recv_f
ClientShutdown ==
    /\ cpc = "c_sendfile"
    /\ req_pos = Len(send_f)
    /\ c2s_fin' = TRUE
    /\ recv_f' = <<>>
    /\ cpc' = "c_recv"
    /\ UNCHANGED <<driver, send_f, resp_f, spc, c2s, s2c, s2c_fin, req_pos,
                   resp_pos, save_f, conn, pending, send_result,
                   conn_at_send, calls>>
    /\ NetFrame

\* make_request: one recv that returns data
ClientRecv ==
    /\ cpc = "c_recv"
    /\ s2c # <<>>
    /\ recv_f' = recv_f \o RecvData(s2c)
    /\ s2c' = RecvRest(s2c)
    /\ UNCHANGED <<driver, send_f, resp_f, cpc, spc, c2s, c2s_fin, s2c_fin,
                   req_pos, resp_pos, save_f, conn, pending, send_result,
                   conn_at_send, calls>>
    /\ NetFrame

\* make_request: recv returns b"", break, the socket and recv_f are closed
ClientRecvEnd ==
    /\ cpc = "c_recv"
    /\ EndOfStream(s2c, s2c_fin)
    /\ cpc' = "c_done"
    /\ UNCHANGED <<driver, send_f, resp_f, spc, c2s, c2s_fin, s2c, s2c_fin,
                   req_pos, resp_pos, save_f, recv_f, conn, pending,
                   send_result, conn_at_send, calls>>
    /\ NetFrame

\* server.recv(...) is called: by the loop of raspi_server.py or by a caller
CallRecv ==
    /\ spc = "s_idle"
    /\ calls < MaxCalls
    /\ calls' = calls + 1
    /\ spc' = "s_accept"
    /\ UNCHANGED <<driver, send_f, resp_f, cpc, c2s, c2s_fin, s2c, s2c_fin,
                   req_pos, resp_pos, save_f, recv_f, conn, pending,
                   send_result, conn_at_send>>
    /\ NetFrame

\* recv: accept returns the waiting connection, save_f is opened
Accept ==
    /\ spc = "s_accept"
    /\ pending
    /\ pending' = FALSE
    /\ conn' = "open"
    /\ save_f' = <<>>
    /\ spc' = "s_recv"
    /\ UNCHANGED <<driver, send_f, resp_f, cpc, c2s, c2s_fin, s2c, s2c_fin,
                   req_pos, resp_pos, recv_f, send_result, conn_at_send,
                   calls>>
    /\ NetFrame

\* recv: one conn.recv that returns data
ServerRecv ==
    /\ spc = "s_recv"
    /\ c2s # <<>>
    /\ save_f' = save_f \o RecvData(c2s)
    /\ c2s' = RecvRest(c2s)
    /\ UNCHANGED <<driver, send_f, resp_f, cpc, spc, c2s_fin, s2c, s2c_fin,
                   req_pos, resp_pos, recv_f, conn, pending, send_result,
                   conn_at_send, calls>>
    /\ NetFrame

\* recv: conn.recv returns b"", break, recv returns
ServerRecvEnd ==
    /\ spc = "s_recv"
    /\ EndOfStream(c2s, c2s_fin)
    /\ spc' = IF driver = "raspi_server" THEN "s_run" ELSE "s_idle"
    /\ UNCHANGED <<driver, send_f, resp_f, cpc, c2s, c2s_fin, s2c, s2c_fin,
                   req_pos, resp_pos, save_f, recv_f, conn, pending,
                   send_result, conn_at_send, calls>>
    /\ NetFrame

\* raspi_server.py: run(...) writes the labelled image
Run ==
    /\ spc = "s_run"
    /\ spc' = "s_send"
    /\ UNCHANGED <<driver, send_f, resp_f, cpc, c2s, c2s_fin, s2c, s2c_fin,
                   req_pos, resp_pos, save_f, recv_f, conn, pending,
                   send_result, conn_at_send, calls>>
    /\ NetFrame

\* server.send(...) is called: the test of self.conn, and what sendfile does
\* on a connection that was closed
CallSend ==
    /\ \/ spc = "s_send"
       \/ spc = "s_idle" /\ driver = "calls"
    /\ calls < MaxCalls
    /\ calls' = calls + 1
    /\ conn_at_send' = conn
    /\ resp_pos' = 0
    /\ IF NoConn(conn)
       THEN /\ send_result' = "ConnectionError"
            /\ spc' = IF driver = "raspi_server" THEN "s_raised" ELSE "s_idle"
       ELSE IF conn = "closed"
       THEN /\ send_result' \in SendOnClosed(resp_f)
            /\ spc' = IF driver = "raspi_server" THEN "s_raised" ELSE "s_idle"
       ELSE /\ send_result' = "sending"
            /\ spc' = "s_sendfile"
    /\ UNCHANGED <<driver, send_f, resp_f, cpc, c2s, c2s_fin, s2c, s2c_fin,
                   req_pos, save_f, recv_f, conn, pending>>
    /\ NetFrame

\* send: self.conn.sendfile(data_f) hands over the next byte
ServerSendfile ==
    /\ spc = "s_sendfile"
    /\ resp_pos < Len(resp_f)
    /\ Len(s2c) < SockBuf
    /\ s2c' = Append(s2c, resp_f[resp_pos + 1])
    /\ resp_pos' = resp_pos + 1
    /\ UNCHANGED <<driver, send_f, resp_f, cpc, spc, c2s, c2s_fin, s2c_fin,
                   req_pos, save_f, recv_f, conn, pending, send_result,
                   conn_at_send, calls>>
    /\ NetFrame

\* send: sendfile has returned; self.conn.close(), send returns
ServerClose ==
    /\ spc = "s_sendfile"
    /\ resp_pos = Len(resp_f)
    /\ s2c_fin' = TRUE
    /\ conn' = "closed"
    /\ send_result' = "returned"
    /\ spc' = "s_idle"
    /\ UNCHANGED <<driver, send_f, resp_f, cpc, c2s, c2s_fin, s2c, req_pos,
                   resp_pos, save_f, recv_f, pending, conn_at_send, calls>>
    /\ NetFrame

ClientStep ==
    \/ ClientSendfile
    \/ ClientShutdown
    \/ ClientRecv
    \/ ClientRecvEnd

ServerStep ==
    \/ CallRecv
    \/ Accept
    \/ ServerRecv
    \/ ServerRecvEnd
    \/ Run
    \/ CallSend
    \/ ServerSendfile
    \/ ServerClose

NetNext ==
    \/ ClientStep
    \/ ServerStep

\* the client and the server are two processes on two machines: each takes
\* a step whenever it stays able to
NetFairness ==
    /\ WF_vars(ClientStep)
    /\ WF_vars(ServerStep)

NetSpec == NetInit /\ [][NetNext]_vars /\ NetFairness

(***************************************************************************)
(* Properties                                                              *)
(***************************************************************************)
\* positions at which a __fetch_img call is in progress
FetchPcs == {"query", "group", "download", "normalize", "enhance", "persist"}

NetworkExc == {"ConnectionError", "URLError", "timeout",
               "requests.ConnectionError"}

ProcessingExc == {"cv.error", "ZeroDivisionError", "UnboundLocalError",
                  "IndexError"}

\* rows of table t whose key is k, and the first such row
RowsOf(t, k) == {i \in 1..Len(t) : t[i] = k}
FirstRow(t, k) == CHOOSE i \in RowsOf(t, k) : \A j \in RowsOf(t, k) : i <= j
\* size of the largest group of table t
MaxCount(t) ==
    CHOOSE n \in 0..Len(t) :
        /\ \E k \in Range(t) : Cardinality(RowsOf(t, k)) = n
        /\ \A k \in Range(t) : Cardinality(RowsOf(t, k)) <= n

\* C1: after a failed attempt, when the controller is back at the loop head
\* to retry or to resample, no exposure scratch file exists.
C1_NoScratchBeforeNextAttempt ==
    (pc = "while" /\ edge \in {"retry", "resample"}) => files = {}

\* C2: a network, connection or timeout failure raised by the query or by a
\* download sends the controller back to retry the same location with the
\* visited set unchanged.
C2_TransientRetriesSameLocation ==
    [][(pc \in {"query", "download"} /\ lastExc' \in NetworkExc)
       => /\ pc' = "while"
          /\ edge' = "retry"
          /\ ra' = ra
          /\ dec' = dec
          /\ prev_locs' = prev_locs]_vars

\* C3: a query that returns zero rows abandons the attempt: the controller
\* resamples instead of retrying, commits nothing, leaves no scratch file
\* and writes no output.
C3_EmptySearchAbandons ==
    [][(pc = "query" /\ lastExc' = "EmptySearch")
       => /\ pc' = "while"
          /\ edge' = "resample"
          /\ <<ra', dec'>> \in Locs
          /\ prev_locs' = prev_locs
          /\ img_idx' = img_idx
          /\ files' = {}
          /\ outputs' = outputs]_vars

C3_Witness ==
    /\ pc = "while"
    /\ lastExc = "EmptySearch"
    /\ edge = "resample"
    /\ files = {}

\* C4: when the largest group of the table has fewer than 5 rows the fetch
\* raises NotEnoughExposures with no exposure downloaded and the controller
\* resamples; when it has 5 rows or more the fetch goes on to download.
C4_MinExposures ==
    [][(pc = "group" /\ img_table_assigned)
       => IF MaxCount(img_table) < 5
          THEN /\ lastExc' = "NotEnoughExposures"
               /\ exposure_count = 0
               /\ edge' = "resample"
               /\ pc' = "while"
               /\ prev_locs' = prev_locs
          ELSE /\ pc' = "download"
               /\ Len(exposure_urls') = MaxCount(img_table)
               /\ exposure_count' = 0
               /\ files' = files]_vars

C4_Witness ==
    /\ pc = "download"
    /\ Len(exposure_urls) = 5
    /\ exposure_count = 0

\* C5: a processing failure in normalization, stacking, enhancement or
\* writing makes the controller discard the scratch files and resample,
\* without committing the location.
C5_ProcessingFailureResamples ==
    [][(pc \in {"normalize", "download", "enhance", "persist"}
        /\ lastExc' \in ProcessingExc)
       => /\ pc' = "while"
          /\ edge' = "resample"
          /\ files' = {}
          /\ prev_locs' = prev_locs]_vars

\* C6: the fetch never reaches grouping with img_table unassigned.
C6_NoGroupingOnUnassignedTable ==
    ~(pc = "group" /\ ~img_table_assigned)

\* C7: no failure terminates the run: gen_img_set never ends on an
\* exception.
C7_NoFailureTerminatesRun ==
    pc # "crashed"

\* C8: the selected group has the greatest row count of all groups, and of
\* the groups with that count it is the one whose first row comes first in
\* the table; exposure_urls are that group's URLs.
C8_SelectsFirstLargest ==
    pc = "sel_done" =>
        LET sel == grouped_img_urls[loc_index + 1].loc
            n == Cardinality(RowsOf(img_table, sel))
        IN  /\ sel \in Range(img_table)
            /\ \A k \in Range(img_table) :
                   /\ Cardinality(RowsOf(img_table, k)) <= n
                   /\ (k # sel /\ Cardinality(RowsOf(img_table, k)) = n)
                          => FirstRow(img_table, sel) < FirstRow(img_table, k)
            /\ Range(exposure_urls) = RowsOf(img_table, sel)
            /\ Len(exposure_urls) = n

C8_Witness ==
    /\ pc = "sel_done"
    /\ img_table = Table355
    /\ loc_index = 1
    /\ Len(exposure_urls) = 5

\* C9: a location enters the visited set only in the step that persists its
\* output; the visited set never holds a duplicate, every member has its
\* output file, and a fetch in progress is for a location not in the set.
C9_VisitedSet ==
    /\ [](/\ \A i, j \in 1..Len(prev_locs) :
                 prev_locs[i] = prev_locs[j] => i = j
          /\ Len(committed_out) = Len(prev_locs)
          /\ \A i \in 1..Len(committed_out) : committed_out[i] \in outputs
          /\ pc \in FetchPcs => <<ra, dec>> \notin Range(prev_locs))
    /\ [][prev_locs' # prev_locs
          => /\ pc = "persist"
             /\ prev_locs' = Append(prev_locs, <<ra, dec>>)
             /\ grouped_img_urls[loc_index + 1].loc \in outputs']_vars

C9_Witness ==
    /\ Len(prev_locs) >= 2
    /\ edge = "commit"

C12_NoScratchAtPersistedOrReturn ==
    ((pc = "for" /\ edge = "commit") \/ pc = "done") => files = {}

\* C13: each commit writes the output file named by the selected group's
\* location, and when gen_img_set has returned there are as many output
\* files as committed locations.
C13_OneOutputPerCommit ==
    /\ Len(committed_out) = Len(prev_locs)
    /\ Range(committed_out) \subseteq outputs
    /\ pc = "done" => Cardinality(outputs) = Len(prev_locs)

\* C14: every exposure file handed to the stacker has been normalized after
\* its download, by the zoomed crop when __is_zoomed_in is true for it and by
\* the rotate-and-crop straightener otherwise.
C14_StackedExposuresNormalized ==
    /\ pc \in {"enhance", "persist"}
           => Range(exposure_path_list) \subseteq normalized
    /\ zoomed = "True" => straightened_by = "__straighten_zoomed_img"
    /\ zoomed = "False" => straightened_by = "__straighten_img"

\* C15: every location the sampler returns has right ascension in [0, 360)
\* and declination in [-90, 90] (thousandths of a degree).
C15_SampledInRange ==
    pc = "sample_done" =>
        /\ 0 <= ra /\ ra < 360 * 1000
        /\ (0 - 90) * 1000 <= dec /\ dec <= 90 * 1000

\* pixels (r, c) of the image that satisfy the predicate of __find_corners
Matching ==
    {p \in (0..(num_rows(image) - 1)) \X (0..(num_cols(image) - 1)) :
        Compare(greater_or_less_than, image[p[1] + 1][p[2] + 1], pixel_value)}

\* C16: when a pixel satisfies the predicate __find_corners returns four
\* such pixels: the leftmost match of the topmost matching row, the leftmost
\* match of the bottommost matching row, the topmost match of the leftmost
\* matching column, the topmost match of the rightmost matching column; a
\* single matching pixel is all four corners.
C16_FindCornersFirstMatches ==
    /\ pc = "corners_unbound" => Matching = {}
    /\ pc = "corners_done" =>
           LET top == corners[1]
               bottom == corners[2]
               left == corners[3]
               right == corners[4]
           IN  /\ \A i \in 1..4 :
                      /\ <<corners[i][1], corners[i][2]>> \in Matching
                      /\ corners[i][3]
                             = image[corners[i][1] + 1][corners[i][2] + 1]
               /\ \A p \in Matching :
                      /\ top[1] <= p[1]
                      /\ p[1] = top[1] => top[2] <= p[2]
                      /\ bottom[1] >= p[1]
                      /\ p[1] = bottom[1] => bottom[2] <= p[2]
                      /\ left[2] <= p[2]
                      /\ p[2] = left[2] => left[1] <= p[1]
                      /\ right[2] >= p[2]
                      /\ p[2] = right[2] => right[1] <= p[1]
               /\ Cardinality(Matching) = 1 =>
                      \A i \in 1..4 :
                          {<<corners[i][1], corners[i][2]>>} = Matching

C16_Witness ==
    /\ pc = "corners_done"
    /\ num_rows(image) = 3
    /\ num_cols(image) = 3
    /\ Matching = {<<1, 2>>}
    /\ \A i \in 1..4 : <<corners[i][1], corners[i][2]>> = <<1, 2>>

\* C17: __is_zoomed_in returns true exactly when column 0 has pixels of value
\* less than 255 at two distinct rows.
C17_ZoomedIffTwoRows ==
    pc = "zoomed_done" =>
        (zoomed_in <=>
            Cardinality({r \in 1..num_rows(image) :
                            image[r][1] < 255}) >= 2)

C17_Witness ==
    /\ pc = "zoomed_done"
    /\ ~zoomed_in
    /\ Cardinality({r \in 1..num_rows(image) : image[r][1] < 255}) = 1
    /\ num_rows(image) >= 2

\* intensities present in the buffer
LevelsIn(m) == UNION {Range(m[r]) : r \in 1..Len(m)}

\* number of pixels of the buffer whose value is v
PixelCount(m, v) ==
    Cardinality({p \in (1..Len(m)) \X (1..Len(m[1])) : m[p[1]][p[2]] = v})

\* C18: equalization of a buffer that holds exactly two intensities maps
\* every pixel of the lower one to 0 and every pixel of the upper one to 255.
C18_TwoLevelsToExtremes ==
    (pc = "eq_done" /\ Cardinality(LevelsIn(image)) = 2) =>
        \A r \in 1..Len(image) : \A c \in 1..Len(image[r]) :
            img_eq[r][c] =
                IF \A l \in LevelsIn(image) : image[r][c] <= l
                THEN 0 ELSE 255

\* C19: bin v of the histogram is the number of pixels of the buffer whose
\* value is v, and the lookup table is the rescaled cumulative sum of those
\* counts.
C19_FrequencyHistogram ==
    /\ pc \in {"eq_hist", "eq_norm", "eq_done"} =>
           \A v \in 0..(bins - 1) : img_hist[v + 1] = PixelCount(image, v)
    /\ (pc \in {"eq_norm", "eq_done"}
        /\ \E v \in 1..255 : PixelCount(image, v) > 0) =>
           uniform_norm = Lookup([v \in 1..bins |-> PixelCount(image, v - 1)])

\* C21: when format_dataset has processed train, validate and test, the
\* label IDs and the data IDs of every subset are the same, no ID is in two
\* subsets, and there are as many pairs as there were labels at the start.
C21_PairsUniqueAndKept ==
    pc = "fmt_done" =>
        /\ \A d \in 1..Len(subdirs) : label_files[d] = data_files[d]
        /\ \A d, e \in 1..Len(subdirs) :
               d # e => label_files[d] \cap label_files[e] = {}
        /\ SumCard(label_files, Len(subdirs)) = labels_at_start

\* C22: grouping partitions the rows by their (RA, DEC) key: every row's URL
\* is in exactly one group, once; every URL of a group is of a row with the
\* group's key; the URLs of a group are in row order; the groups are in the
\* order of the first rows of their keys.
C22_GroupingPartitionsRows ==
    pc \in {"sel_grouped", "sel_done"} =>
        LET g == grouped_img_urls
        IN  /\ \A i \in 1..Len(img_table) :
                   Cardinality({<<a, j>> \in (1..Len(g)) \X (1..Len(img_table)) :
                                   j <= Len(g[a].urls) /\ g[a].urls[j] = i}) = 1
            /\ \A a \in 1..Len(g) :
                   /\ g[a].urls # <<>>
                   /\ \A j \in 1..Len(g[a].urls) :
                          /\ g[a].urls[j] \in 1..Len(img_table)
                          /\ img_table[g[a].urls[j]] = g[a].loc
                   /\ \A j, k \in 1..Len(g[a].urls) :
                          j < k => g[a].urls[j] < g[a].urls[k]
            /\ \A a, b \in 1..Len(g) :
                   a < b => /\ g[a].loc # g[b].loc
                            /\ FirstRow(img_table, g[a].loc)
                                   < FirstRow(img_table, g[b].loc)

C22_Witness ==
    /\ pc = "sel_grouped"
    /\ Len(grouped_img_urls) = 2
    /\ grouped_img_urls[1].urls = <<1, 3, 4>>
    /\ grouped_img_urls[2].urls = <<2, 5>>
    /\ grouped_img_urls[1].loc = 2

\* C23: the angle estimate of __straighten_img never fails on a zero column
\* difference between the top and the right corner.
C23_AngleDefined ==
    pc # "angle_zero_division"

\* C24: when the four corners of the rotated buffer were found, every inward
\* scan ends with its edge bound, on the column (top, bottom) or the row
\* (left, right) of its corner, not before the corner, at a pixel that is
\* neither black fill nor white background.
C24_InwardScansReachContent ==
    pc \in {"rot_scanned", "rot_cropped", "rot_edge_unbound"} =>
        /\ \A i \in 1..4 :
               /\ edges[i] # <<>>
               /\ edges[i][3] # BLACK_PX_VAL
               /\ edges[i][3] # WHITE_PX_VAL
        /\ edges[1][2] = corners[1][2] /\ edges[1][1] >= corners[1][1]
        /\ edges[2][2] = corners[2][2] /\ edges[2][1] <= corners[2][1]
        /\ edges[3][1] = corners[3][1] /\ edges[3][2] >= corners[3][2]
        /\ edges[4][1] = corners[4][1] /\ edges[4][2] <= corners[4][2]

\* C25: on an image classified as zoomed the four diagonal scans read only
\* pixels at indices inside the image and each of them finds a pixel below
\* 255 for its corner.
C25_ZoomScansInBounds ==
    pc \in {"zoom_scanned", "zoom_index_error", "zoom_unbound",
            "zoom_cropped"} =>
        /\ reads \subseteq (0..(num_rows(image) - 1))
                               \X (0..(num_cols(image) - 1))
        /\ \A i \in 1..4 :
               /\ zoom_corners[i] # <<>>
               /\ zoom_corners[i][3] < 255

\* C26: the crop takes the greater row of the two upper corners as top, the
\* lesser row of the two lower corners as bottom, the greater column of the
\* two left corners as left, the lesser column of the two right corners as
\* right, and is rows [top, bottom) and columns [left, right) of the image.
C26_ZoomCropInnerExtremes ==
    pc = "zoom_cropped" =>
        LET lu == zoom_corners[1]
            ru == zoom_corners[2]
            ll == zoom_corners[3]
            rl == zoom_corners[4]
            top == zoom_crop.top_value[1]
            bottom == zoom_crop.bottom_value[1]
            left == zoom_crop.left_value[2]
            right == zoom_crop.right_value[2]
        IN  /\ top >= lu[1] /\ top >= ru[1] /\ top \in {lu[1], ru[1]}
            /\ bottom <= ll[1] /\ bottom <= rl[1] /\ bottom \in {ll[1], rl[1]}
            /\ left >= lu[2] /\ left >= ll[2] /\ left \in {lu[2], ll[2]}
            /\ right <= ru[2] /\ right <= rl[2] /\ right \in {ru[2], rl[2]}
            /\ zoom_crop.rows =
                   {r \in 0..(num_rows(image) - 1) : top <= r /\ r < bottom}
            /\ zoom_crop.cols =
                   {c \in 0..(num_cols(image) - 1) : left <= c /\ c < right}

\* C27: if from some point on no step of __fetch_img fails (no failure is
\* handed to the except clauses and none propagates), gen_img_set eventually
\* returns with exactly num_img distinct committed locations.
C27_EventuallyReturns ==
    <>[](edge \notin {"retry", "resample", "crash"}) =>
        <>(/\ pc = "done"
           /\ Len(prev_locs) = NumImg
           /\ Cardinality(Range(prev_locs)) = NumImg)

C27_Witness ==
    /\ pc = "done"
    /\ Len(prev_locs) = NumImg
    /\ Cardinality(Range(prev_locs)) = NumImg
    /\ Cardinality(tried) = NumImg

\* rows that are the first of their (RA, DEC) key, in table order
FirstRows(table) ==
    {i \in 1..Len(table) : \A j \in 1..(i - 1) : table[j] # table[i]}

\* C28: the k-th file written has index k - 1 and comes from the URL of the
\* k-th row that opens a new location; a failed download writes nothing and
\* does not advance; at the return every location has its file.
C28_OneImagePerGroupInOrder ==
    pc \in {"sky_save", "sky_done"} =>
        /\ Len(saved) = img_idx
        /\ \A k \in 1..Len(saved) :
               /\ saved[k][1] = k - 1
               /\ saved[k][2] \in FirstRows(all_sky_img_table)
               /\ Cardinality({i \in FirstRows(all_sky_img_table) :
                                  i <= saved[k][2]}) = k
        /\ pc = "sky_done" =>
               Len(saved) = Cardinality(FirstRows(all_sky_img_table))

C28_Witness ==
    /\ pc = "sky_done"
    /\ attempts > 0
    /\ Len(saved) >= 2
    /\ Len(all_sky_img_table) > Len(saved)

\* the server has begun to answer
ServerSending == spc = "s_sendfile" \/ resp_pos > 0 \/ s2c # <<>> \/ s2c_fin

\* the exchange is over on both sides, each file arrived whole
ExchangeDone ==
    /\ cpc = "c_done"
    /\ conn = "closed"
    /\ save_f = send_f
    /\ recv_f = resp_f

\* C29: the server answers only after it read the client's whole file up to
\* the end of stream; the client stops reading only after the server closed
\* the connection; and with the server loop of raspi_server.py the exchange
\* completes, each side holding exactly the bytes the other sent.
C29_ExchangeOrderedAndCompletes ==
    /\ [](ServerSending => c2s_fin /\ c2s = <<>> /\ save_f = send_f)
    /\ [](cpc = "c_done" => s2c_fin /\ conn = "closed" /\ recv_f = resp_f)
    /\ (driver = "raspi_server" => <>ExchangeDone)

C29_Witness ==
    /\ driver = "raspi_server"
    /\ ExchangeDone
    /\ Len(send_f) > CONNECTION_BUFFER_SIZE
    /\ Len(resp_f) > 0

\* C30: a send called while there is no open accepted connection raises
\* ConnectionError.
C30_SendWithoutClientRaises ==
    (send_result # "None" /\ conn_at_send # "open") =>
        send_result = "ConnectionError"

\* C31: for every buffer the divisor cum_sum.max() - cum_sum.min() is not
\* zero, the lookup table is non-decreasing with every entry in 0..255, and
\* the output has the rows and columns of the input.
C31_RescaleDefined ==
    /\ pc \in {"eq_norm", "eq_done"} =>
           /\ NormSpan(img_hist) # 0
           /\ \A v \in 1..bins : uniform_norm[v] \in 0..255
           /\ \A v \in 1..(bins - 1) : uniform_norm[v] <= uniform_norm[v + 1]
    /\ pc = "eq_done" =>
           /\ Len(img_eq) = Len(image)
           /\ \A r \in 1..Len(image) : Len(img_eq[r]) = Len(image[r])

====
